---- MODULE Spec2Model ----
(***************************************************************************)
(* A model of api/index.go: the /rankings handler of the rank battle       *)
(* tracker.  Strings whose characters matter (the season start and end     *)
(* times) are sequences of one-character strings; other texts are          *)
(* sequences of chunks, so that concatenation is \o.                       *)
(***************************************************************************)
EXTENDS Integers, Sequences, FiniteSets, TLC

VARIABLES
  call,             \* a function of the program called on its own
  pc,               \* the state of RankingHandler's request
  trace,            \* the states the request has been in, oldest first
  method,           \* r.Method
  w,                \* the http.ResponseWriter
  calls,            \* the upstream calls started for the request
  catalogResp,      \* what the catalog endpoint answered
  seasonList,       \* seasonList.Seasons
  clock,            \* time.Now() as getLatestSeasonData read it
  latestSeasonData,
  rankingResp,      \* what the ranking endpoint answered
  top1000Data,
  err               \* the error that ended the request, and its stage

handlerVars ==
  <<pc, trace, method, w, calls, catalogResp, seasonList, clock,
    latestSeasonData, rankingResp, top1000Data, err>>

vars == <<call, handlerVars>>

(***************************************************************************)
(* Bounds of the model.                                                    *)
(***************************************************************************)
\* season windows start and end on days 1..MaxDay of January 2024
MaxDay == 3

\* a catalog holds at most MaxRecords season records
MaxRecords == 2

\* the ranking endpoint returns at most Top1000 + MaxExtraRows rows
MaxExtraRows == 1

(***************************************************************************)
(* Constants of the program.                                               *)
(***************************************************************************)
\* the least number of ranking rows, line 118
Top1000 == 1000

\* the divisor of the rating, line 132
RatingScale == 1000

StatusOK == 200

StatusMethodNotAllowed == 405

StatusInternalServerError == 500

(***************************************************************************)
(* Characters and numbers.                                                 *)
(***************************************************************************)
DigitChars == <<"0", "1", "2", "3", "4", "5", "6", "7", "8", "9">>

Digits == {DigitChars[i] : i \in 1..10}

DigitVal(c) == (CHOOSE i \in 1..10 : DigitChars[i] = c) - 1

\* time.isDigit(s, i): position i (1-based here) exists and holds a digit
isDigit(s, i) == i <= Len(s) /\ s[i] \in Digits

\* the literal prefix of the layout must be next in the value
HasChar(s, i, c) == i <= Len(s) /\ s[i] = c

\* two decimal digits at positions i, i+1
Num2(s, i) == 10 * DigitVal(s[i]) + DigitVal(s[i + 1])

Num4(s, i) == 100 * Num2(s, i) + Num2(s, i + 2)

Pad2(n) == <<DigitChars[((n \div 10) % 10) + 1], DigitChars[(n % 10) + 1]>>

Pad4(n) == Pad2(n \div 100) \o Pad2(n % 100)

(***************************************************************************)
(* The calendar arithmetic of package time (proleptic Gregorian, UTC).     *)
(***************************************************************************)
isLeap(y) == y % 4 = 0 /\ (y % 100 # 0 \/ y % 400 = 0)

daysIn(m, y) ==
  IF m = 2 THEN (IF isLeap(y) THEN 29 ELSE 28)
  ELSE IF m \in {4, 6, 9, 11} THEN 30 ELSE 31

\* days from 1970-01-01 to the civil date y-m-d
DaysFromCivil(y, m, d) ==
  LET yy  == IF m <= 2 THEN y - 1 ELSE y
      era == yy \div 400
      yoe == yy - era * 400
      mp  == IF m > 2 THEN m - 3 ELSE m + 9
      doy == (153 * mp + 2) \div 5 + d - 1
      doe == yoe * 365 + yoe \div 4 - yoe \div 100 + doy
  IN  era * 146097 + doe - 719468

\* time.Date(y, m, d, h, mi, s, 0, UTC).Unix()
UnixOf(y, m, d, h, mi, s) ==
  DaysFromCivil(y, m, d) * 86400 + h * 3600 + mi * 60 + s

\* the civil date of a day count, as <<year, month, day>>
CivilFromDays(z0) ==
  LET z   == z0 + 719468
      era == z \div 146097
      doe == z - era * 146097
      yoe == (doe - doe \div 1460 + doe \div 36524 - doe \div 146096) \div 365
      doy == doe - (365 * yoe + yoe \div 4 - yoe \div 100)
      mp  == (5 * doy + 2) \div 153
      d   == doy - (153 * mp + 2) \div 5 + 1
      m   == IF mp < 10 THEN mp + 3 ELSE mp - 9
      y   == yoe + era * 400 + (IF m <= 2 THEN 1 ELSE 0)
  IN  <<y, m, d>>

(***************************************************************************)
(* time.Parse("2006-01-02 15:04:05", value): the year takes four digits,   *)
(* month, day, minute and second two digits each, the hour one or two      *)
(* (getnum with fixed = false), the separators must match the layout, no   *)
(* text may follow, and every field must be in range.  The result is       *)
(* [ok, unix]; a failure is the *time.ParseError.  Fractional seconds,     *)
(* which Parse accepts after the seconds field, cannot occur: every value  *)
(* parsed ends in the appended ":00".  Instants are whole seconds.         *)
(***************************************************************************)
ParseFailed == [ok |-> FALSE, unix |-> 0]

timeParse(value) ==
  LET hl == IF isDigit(value, 12) /\ isDigit(value, 13) THEN 2 ELSE 1
      shape ==
        /\ Len(value) = 17 + hl
        /\ \A i \in {1, 2, 3, 4, 6, 7, 9, 10} : isDigit(value, i)
        /\ HasChar(value, 5, "-") /\ HasChar(value, 8, "-")
        /\ HasChar(value, 11, " ")
        /\ \A i \in 12..(11 + hl) : isDigit(value, i)
        /\ HasChar(value, 12 + hl, ":")
        /\ isDigit(value, 13 + hl) /\ isDigit(value, 14 + hl)
        /\ HasChar(value, 15 + hl, ":")
        /\ isDigit(value, 16 + hl) /\ isDigit(value, 17 + hl)
  IN  IF ~shape THEN ParseFailed
      ELSE
        LET y  == Num4(value, 1)
            m  == Num2(value, 6)
            d  == Num2(value, 9)
            h  == IF hl = 2 THEN Num2(value, 12) ELSE DigitVal(value[12])
            mi == Num2(value, 13 + hl)
            s  == Num2(value, 16 + hl)
            inRange ==
              /\ m >= 1 /\ m <= 12
              /\ h < 24 /\ mi < 60 /\ s < 60
              /\ d >= 1 /\ d <= daysIn(m, y)
        IN  IF inRange THEN [ok |-> TRUE, unix |-> UnixOf(y, m, d, h, mi, s)]
            ELSE ParseFailed

\* t.Format("2006-01-02 15:04:05") of the instant unix (UTC)
timeFormat(unix) ==
  LET days == unix \div 86400
      rem  == unix - days * 86400
      ymd  == CivilFromDays(days)
  IN  Pad4(ymd[1]) \o <<"-">> \o Pad2(ymd[2]) \o <<"-">> \o Pad2(ymd[3])
        \o <<" ">> \o Pad2(rem \div 3600) \o <<":">>
        \o Pad2((rem % 3600) \div 60) \o <<":">> \o Pad2(rem % 60)

(***************************************************************************)
(* The time-window parsing step of lines 81-82, 86-87, 194-195, 199-200.   *)
(***************************************************************************)
\* strings.Replace(s, "/", "-", -1)
ReplaceSlashes(s) == [i \in 1..Len(s) |-> IF s[i] = "/" THEN "-" ELSE s[i]]

\* variant: strings.Replace(s, "/", "-", 1), only the first slash
ReplaceFirstSlash(s) ==
  [i \in 1..Len(s) |->
     IF s[i] = "/" /\ (\A j \in 1..(i - 1) : s[j] # "/") THEN "-" ELSE s[i]]

Normalise_FirstSlashOnly(s) == ReplaceFirstSlash(s) \o <<":", "0", "0">>

\* strings.Replace(s, "/", "-", -1) + ":00"
Normalise(s) == ReplaceSlashes(s) \o <<":", "0", "0">>

\* the whole step, from the upstream string to the instant
ParseWindowTime(s) == timeParse(Normalise(s))

(***************************************************************************)
(* Input texts.                                                            *)
(***************************************************************************)
Year2024 == <<"2", "0", "2", "4">>

\* a date and time of January 2024 spelled with separator sep, with or
\* without a seconds field
Spell(d, h, mi, sep, withSec) ==
  Year2024 \o <<sep>> \o Pad2(1) \o <<sep>> \o Pad2(d) \o <<" ">>
    \o Pad2(h) \o <<":">> \o Pad2(mi)
    \o (IF withSec THEN <<":", "0", "0">> ELSE <<>>)

Separators == {"/", "-"}

DateTimes == [d : 1..MaxDay, h : {0, 9, 23}, mi : {0, 30}]

Spellings == [sep : Separators, withSec : BOOLEAN]

SpellOf(c, v) == Spell(c.d, c.h, c.mi, v.sep, v.withSec)

\* strings of none of the accepted shapes
Malformed ==
  { <<>>,
    <<"x">>,
    Year2024 \o <<"/", "0", "1", "/", "0", "1">>,
    Year2024 \o <<"/", "1", "3", "/", "0", "1", " ", "0", "0", ":", "0", "0">>,
    Year2024 \o <<"/", "0", "2", "/", "3", "0", " ", "0", "0", ":", "0", "0">>,
    Year2024 \o <<"/", "0", "1", "/", "0", "1", " ", "2", "4", ":", "0", "0">>,
    Year2024 \o <<"/", "0", "1", "/", "0", "1", "T", "0", "0", ":", "0", "0">> }

NoDate == [d |-> 0, h |-> 0, mi |-> 0]

NoSpelling == [sep |-> "", withSec |-> FALSE]

(***************************************************************************)
(* SeasonData (lines 13-25) and the catalog SeasonList.Seasons (line 29):  *)
(* a map from group key to a map from sub key to SeasonData.               *)
(***************************************************************************)
MakeSeason(id, n, startText, endText) ==
  [cId |-> id, cnt |-> 0, end |-> endText, name |-> "season", rankCnt |-> 0,
   rst |-> 0, rule |-> 0, season |-> n, start |-> startText,
   ts1 |-> 1700000000 + n, ts2 |-> 1700000000 + n]

\* SeasonData{}
ZeroSeason ==
  [cId |-> "", cnt |-> 0, end |-> <<>>, name |-> "", rankCnt |-> 0,
   rst |-> 0, rule |-> 0, season |-> 0, start |-> <<>>, ts1 |-> 0, ts2 |-> 0]

Midnight(d, sep, withSec) == Spell(d, 0, 0, sep, withSec)

\* the windows of the record pool: consecutive days, and the whole range
Windows ==
  {<<d, d + 1>> : d \in 1..(MaxDay - 1)} \cup {<<1, MaxDay>>}

\* well-formed records in the upstream's slash format
SlashSeasons ==
  { MakeSeason("slash", 10 * win[1] + win[2],
               Midnight(win[1], "/", FALSE), Midnight(win[2], "/", FALSE)) :
      win \in Windows }

\* a record whose start already has a seconds field, one whose end is no date
BadStartSeason ==
  MakeSeason("badstart", 2, Midnight(1, "/", TRUE), Midnight(MaxDay, "/", FALSE))

BadEndSeason ==
  MakeSeason("badend", 3, Midnight(1, "/", FALSE), <<"x">>)

SeasonPool == SlashSeasons \cup {BadStartSeason, BadEndSeason}

Groups == {"g1", "g2"}

Subs == {"a", "b"}

InnerMaps == UNION {[ks -> SeasonPool] : ks \in SUBSET Subs}

\* the key paths <<group, sub>> of a catalog
Paths(seasons) ==
  UNION {{<<g, k>> : k \in DOMAIN seasons[g]} : g \in DOMAIN seasons}

Catalogs ==
  { c \in UNION {[gs -> InnerMaps] : gs \in SUBSET Groups} :
      Cardinality(Paths(c)) <= MaxRecords }

\* the instants the clock may show: each midnight, and the first noon
Nows ==
  {UnixOf(2024, 1, d, 0, 0, 0) : d \in 1..MaxDay}
    \cup {UnixOf(2024, 1, 1, 12, 0, 0)}

(***************************************************************************)
(* Go's range over a map visits the keys in an unspecified order: the      *)
(* nested loops of lines 79-80 and 192-193 visit the groups in any order   *)
(* and, within a group, the sub keys in any order.                         *)
(***************************************************************************)
Perms(S) ==
  {p \in [1..Cardinality(S) -> S] : \A x \in S : \E i \in DOMAIN p : p[i] = x}

RECURSIVE Walks(_, _)
Walks(seasons, gs) ==
  IF gs = <<>> THEN {<<>>}
  ELSE { [i \in 1..Len(p) |-> <<gs[1], p[i]>>] \o rest :
           p \in Perms(DOMAIN seasons[gs[1]]), rest \in Walks(seasons, Tail(gs)) }

IterOrders(seasons) ==
  UNION {Walks(seasons, gp) : gp \in Perms(DOMAIN seasons)}

(***************************************************************************)
(* Errors are their messages, as sequences of chunks; nil is empty.        *)
(***************************************************************************)
Nil == <<>>

\* the %v of a *time.ParseError
ParseErrorText == "parsing time: cannot parse"

ErrParseStart == <<"failed to parse start time: ", ParseErrorText>>

ErrParseEnd == <<"failed to parse end time: ", ParseErrorText>>

ErrNoSeason == <<"no season data available">>

(***************************************************************************)
(* getLatestSeasonData (lines 189-210), for the visiting order `order`.    *)
(***************************************************************************)
\* now.After(start) && now.Before(end), line 204
\* variant: !now.Before(start) && !now.After(end)
WindowContains_Inclusive(now, start, end) == now >= start /\ now <= end

WindowContains(now, start, end) == now > start /\ now < end

\* line 205 returns the loop copy, whose Start and End lines 194 and 199
\* have overwritten
ReturnedSeason(original, copy) == copy

\* an assignment to a field of the range variable (lines 91-92, 194, 199)
\* changes the loop's copy of the map value, never the map
\* variant: the loop ranges over pointers into the map
RangeCopyStore_ByReference(seasons, path, copy) ==
  [seasons EXCEPT ![path[1]][path[2]] = copy]

RangeCopyStore(seasons, path, copy) == seasons

RECURSIVE getLatestFrom(_, _, _, _)
getLatestFrom(seasons, now, order, i) ==
  IF i > Len(order)
  THEN [data |-> ZeroSeason, err |-> ErrNoSeason, seasons |-> seasons]
  ELSE
    LET original == seasons[order[i][1]][order[i][2]]
        copy1 == [original EXCEPT !.start = Normalise(original.start)]
        map1  == RangeCopyStore(seasons, order[i], copy1)
        start == timeParse(copy1.start)
        copy2 == [copy1 EXCEPT !.end = Normalise(copy1.end)]
        map2  == RangeCopyStore(map1, order[i], copy2)
        end   == timeParse(copy2.end)
    IN  IF ~start.ok
        THEN [data |-> ZeroSeason, err |-> ErrParseStart, seasons |-> map1]
        ELSE IF ~end.ok
        THEN [data |-> ZeroSeason, err |-> ErrParseEnd, seasons |-> map2]
        ELSE IF WindowContains(now, start.unix, end.unix)
        THEN [data |-> ReturnedSeason(original, copy2), err |-> Nil,
              seasons |-> map2]
        ELSE getLatestFrom(map2, now, order, i + 1)

\* the result, and the caller's map as the call leaves it
getLatestSeasonData(seasons, now, order) == getLatestFrom(seasons, now, order, 1)

(***************************************************************************)
(* http.ResponseWriter: the header map, the status and the header as       *)
(* WriteHeader sent them (status 0: not sent yet), and the body parts      *)
(* written.                                                                *)
(***************************************************************************)
NoHeader == [k \in {} |-> ""]

HeaderSet(h, k, v) == [x \in (DOMAIN h) \cup {k} |-> IF x = k THEN v ELSE h[x]]

HeaderDel(h, k) == [x \in (DOMAIN h) \ {k} |-> h[x]]

HeaderGet(h, k) == IF k \in DOMAIN h THEN h[k] ELSE ""

NewResponseWriter ==
  [header |-> NoHeader, status |-> 0, sent |-> NoHeader, body |-> <<>>]

\* the first call sends the status and the header map as it is then; a
\* later call is superfluous and changes nothing
WriteHeader(rw, code) ==
  IF rw.status # 0 THEN rw
  ELSE [rw EXCEPT !.status = code, !.sent = rw.header]

\* Write sends the header with 200 first unless it is sent already
Write(rw, part) ==
  [WriteHeader(rw, StatusOK) EXCEPT !.body = Append(@, part)]

\* a Write that fails: the header is committed all the same, and of the
\* data only `written`, nothing or a part, has gone out
FailedWrite(rw, written) ==
  [WriteHeader(rw, StatusOK) EXCEPT !.body = @ \o written]

NoResponse == [season_data |-> ZeroSeason, top_1000 |-> <<>>]

TextPart(text) == [kind |-> "text", text |-> text, value |-> NoResponse]

JsonPart(v) == [kind |-> "json", text |-> <<>>, value |-> v]

JsonPrefixPart == [kind |-> "json-prefix", text |-> <<>>, value |-> NoResponse]

\* the header map as http.Error leaves it
ErrorHeader(h) ==
  HeaderSet(HeaderSet(HeaderDel(h, "Content-Length"),
                      "Content-Type", "text/plain; charset=utf-8"),
            "X-Content-Type-Options", "nosniff")

\* http.Error(w, msg, code) of lines 146, 152, 159, 166, 176
httpError(rw, msg, code) ==
  Write(WriteHeader([rw EXCEPT !.header = ErrorHeader(rw.header)], code),
        TextPart(msg \o <<"\n">>))

\* http.Error on a writer whose Write has failed: the header map is
\* changed, WriteHeader is called, and the Write of the message fails too
httpErrorAfterFailure(rw, msg, code) ==
  FailedWrite(WriteHeader([rw EXCEPT !.header = ErrorHeader(rw.header)], code),
              <<>>)

\* lines 142-143
\* variant: line 142 missing
EntryHeaders_ContentTypeOnly(h) == HeaderSet(h, "Content-Type", "application/json")

EntryHeaders(h) ==
  HeaderSet(HeaderSet(h, "Access-Control-Allow-Origin", "*"),
            "Content-Type", "application/json")

\* line 145
\* variant: HEAD let through as well
MethodAllowed_GetOrHead(m) == m \in {"GET", "HEAD"}

MethodAllowed(m) == m = "GET"

Methods == {"GET", "HEAD", "POST", "PUT", "DELETE", "OPTIONS"}

(***************************************************************************)
(* fetchRankingData (lines 47-97) on the answer of the catalog endpoint.   *)
(***************************************************************************)
StatusCodes == {404, 503}

CatalogResponses ==
  {[kind |-> "transport error", code |-> 0, list |-> <<>>],
   [kind |-> "undecodable", code |-> StatusOK, list |-> <<>>]}
    \cup {[kind |-> "status", code |-> c, list |-> <<>>] : c \in StatusCodes}
    \cup {[kind |-> "decoded", code |-> StatusOK, list |-> c] : c \in Catalogs}

\* lines 81-90 on one record: the first error, or nil
\* variant: lines 86-90 missing
CheckSeason_StartOnly(seasonData) ==
  IF ~timeParse(Normalise(seasonData.start)).ok THEN ErrParseStart ELSE Nil

CheckSeason(seasonData) ==
  IF ~timeParse(Normalise(seasonData.start)).ok THEN ErrParseStart
  ELSE IF ~timeParse(Normalise(seasonData.end)).ok THEN ErrParseEnd
  ELSE Nil

\* lines 79-94: every record is checked, and its formatted start and end
\* are stored in the loop's copy
RECURSIVE validateFrom(_, _, _)
validateFrom(seasons, order, i) ==
  IF i > Len(order) THEN [list |-> seasons, err |-> Nil]
  ELSE
    LET seasonData == seasons[order[i][1]][order[i][2]]
        e == CheckSeason(seasonData)
    IN  IF e # Nil THEN [list |-> seasons, err |-> e]
        ELSE
          LET start == timeParse(Normalise(seasonData.start))
              end   == timeParse(Normalise(seasonData.end))
              copy  == [seasonData EXCEPT !.start = timeFormat(start.unix),
                                          !.end = timeFormat(end.unix)]
          IN  validateFrom(RangeCopyStore(seasons, order[i], copy), order, i + 1)

fetchRankingData(resp, order) ==
  IF resp.kind = "transport error"
  THEN [list |-> <<>>, err |-> <<"failed to execute request: ", "transport error">>]
  ELSE IF resp.code # StatusOK
  THEN [list |-> <<>>,
        err |-> <<"failed to fetch data, status code: ", ToString(resp.code)>>]
  ELSE IF resp.kind = "undecodable"
  THEN [list |-> <<>>, err |-> <<"failed to decode response: ", "json error">>]
  ELSE LET v == validateFrom(resp.list, order, 1)
       IN  IF v.err # Nil THEN [list |-> <<>>, err |-> v.err] ELSE v

(***************************************************************************)
(* fetchTop1000RankingData (lines 100-124) and convertRawDataToResponse    *)
(* (lines 127-138).  A float64 is held as its count of thousandths, so     *)
(* the rating 18230 is 18230000 and 18.23 is 18230.                        *)
(***************************************************************************)
IconBase == "https://resource.pokemon-home.com/battledata/img/icons/trainer/"

Thousandths(n) == n * 1000

\* the i-th row of the upstream array of kind gen
RawRow(gen, i) ==
  [rank |-> IF gen = "ranked" THEN i ELSE 0,
   rating_value |-> Thousandths(20000 - (i % 7)),
   icon |-> ToString(i % 5) \o ".png",
   name |-> IF gen = "ranked" THEN ToString(i) ELSE "Ash",
   lng |-> IF i % 2 = 0 THEN "ja" ELSE "en"]

RowKinds == {"ranked", "named"}

\* the longest arrays the endpoint returns here, one per kind
UpstreamRows ==
  [gen \in RowKinds |-> [i \in 1..(Top1000 + MaxExtraRows) |-> RawRow(gen, i)]]

\* the array the JSON decoder yields for the answer resp
RawRows(resp) == SubSeq(UpstreamRows[resp.gen], 1, resp.n)

\* array lengths around the threshold, and far below it
RowCounts == {0, 1, Top1000 - 1} \cup (Top1000 .. (Top1000 + MaxExtraRows))

\* the lengths one request is answered with
HandlerRowCounts == {Top1000 - 1, Top1000, Top1000 + MaxExtraRows}

RankingFailures ==
  {[kind |-> "transport error", code |-> 0, n |-> 0, gen |-> ""],
   [kind |-> "undecodable", code |-> StatusOK, n |-> 0, gen |-> ""]}
    \cup {[kind |-> "status", code |-> c, n |-> 0, gen |-> ""] : c \in StatusCodes}

RankingArrays(counts, gens) ==
  {[kind |-> "decoded", code |-> StatusOK, n |-> n, gen |-> g] :
     n \in counts, g \in gens}

\* variant: line 135 missing
ConvertRow_NoLng(data) ==
  [rank |-> data.rank, rating_value |-> data.rating_value \div RatingScale,
   icon |-> IconBase \o data.icon, name |-> data.name, lng |-> ""]

\* lines 130-135
ConvertRow(data) ==
  [rank |-> data.rank, rating_value |-> data.rating_value \div RatingScale,
   icon |-> IconBase \o data.icon, name |-> data.name, lng |-> data.lng]

convertRawDataToResponse(rawData) ==
  [i \in 1..Len(rawData) |-> ConvertRow(rawData[i])]

\* line 101
rankingURL(cId, rst, ts1) ==
  <<"https://resource.pokemon-home.com/battledata/ranking/scvi/", cId, "/",
    ToString(rst), "/", ts1, "/traner-1">>

ErrShortRanking == <<"top 1000 ranking data is less than 1000">>

fetchTop1000RankingData(resp) ==
  IF resp.kind = "transport error"
  THEN [data |-> <<>>,
        err |-> <<"failed to fetch top 1000 ranking data: ", "transport error">>]
  ELSE IF resp.code # StatusOK
  THEN [data |-> <<>>,
        err |-> <<"failed to fetch top 1000 ranking data, status code: ",
                  ToString(resp.code)>>]
  ELSE IF resp.kind = "undecodable"
  THEN [data |-> <<>>, err |-> <<"failed to decode ranking data: ", "json error">>]
  ELSE LET rankingData == RawRows(resp)
       IN  IF Len(rankingData) < Top1000
           THEN [data |-> <<>>, err |-> ErrShortRanking]
           ELSE [data |-> convertRawDataToResponse(rankingData), err |-> Nil]

(***************************************************************************)
(* RankingHandler (lines 141-179), one request, a step per stage.          *)
(***************************************************************************)
NoCall == [op |-> "none"]

NoError == [stage |-> "", msg |-> Nil]

NoCatalogResp == [kind |-> "none", code |-> 0, list |-> <<>>]

NoRankingResp == [kind |-> "none", code |-> 0, n |-> 0, gen |-> ""]

\* the request has not entered the handler
HandlerIdle ==
  /\ pc = "Idle"
  /\ trace = <<"Idle">>
  /\ method \in Methods
  /\ w = NewResponseWriter
  /\ calls = [catalog |-> 0, ranking |-> 0, url |-> <<>>]
  /\ catalogResp = NoCatalogResp
  /\ seasonList = <<>>
  /\ clock = 0
  /\ latestSeasonData = ZeroSeason
  /\ rankingResp = NoRankingResp
  /\ top1000Data = <<>>
  /\ err = NoError

Init == call = NoCall /\ HandlerIdle

Goto(state) == pc' = state /\ trace' = Append(trace, state)

\* an error return: http.Error with 500 and the wrapped message
Fail(prefix, e) ==
  /\ w' = httpError(w, <<prefix>> \o e, StatusInternalServerError)
  /\ err' = [stage |-> pc, msg |-> e]
  /\ Goto("Failed")

\* lines 142-150: the headers, the method check, the catalog POST started
Enter ==
  /\ pc = "Idle"
  /\ LET rw == [w EXCEPT !.header = EntryHeaders(w.header)]
     IN  IF ~MethodAllowed(method)
         THEN /\ w' = httpError(rw, <<"Method not allowed">>, StatusMethodNotAllowed)
              /\ Goto("Rejected")
              /\ UNCHANGED calls
         ELSE /\ w' = rw
              /\ calls' = [calls EXCEPT !.catalog = @ + 1]
              /\ Goto("FetchingCatalog")
  /\ UNCHANGED <<call, method, catalogResp, seasonList, clock, latestSeasonData,
                 rankingResp, top1000Data, err>>

\* lines 150-154: fetchRankingData returns
CatalogReturns ==
  /\ pc = "FetchingCatalog"
  /\ \E resp \in CatalogResponses :
       \E order \in IF resp.kind = "decoded" THEN IterOrders(resp.list) ELSE {<<>>} :
         \E r \in {fetchRankingData(resp, order)} :
             /\ catalogResp' = resp
             /\ IF r.err # Nil
                THEN /\ Fail("Error fetching ranking data: ", r.err)
                     /\ UNCHANGED seasonList
                ELSE /\ seasonList' = r.list
                     /\ Goto("SelectingSeason")
                     /\ UNCHANGED <<w, err>>
  /\ UNCHANGED <<call, method, calls, clock, latestSeasonData, rankingResp,
                 top1000Data>>

\* lines 157-164: getLatestSeasonData returns, the ranking GET is started
SelectSeason ==
  /\ pc = "SelectingSeason"
  /\ \E n \in Nows, order \in IterOrders(seasonList) :
       \E r \in {getLatestSeasonData(seasonList, n, order)} :
           /\ clock' = n
           /\ seasonList' = r.seasons
           /\ IF r.err # Nil
              THEN /\ Fail("Error fetching latest season data: ", r.err)
                   /\ UNCHANGED <<latestSeasonData, calls>>
              ELSE /\ latestSeasonData' = r.data
                   /\ calls' = [calls EXCEPT
                                  !.ranking = @ + 1,
                                  !.url = rankingURL(r.data.cId, r.data.rst,
                                                     ToString(r.data.ts1))]
                   /\ Goto("FetchingRanking")
                   /\ UNCHANGED <<w, err>>
  /\ UNCHANGED <<call, method, catalogResp, rankingResp, top1000Data>>

\* lines 164-173: fetchTop1000RankingData returns
RankingReturns ==
  /\ pc = "FetchingRanking"
  /\ \E resp \in RankingFailures \cup RankingArrays(HandlerRowCounts, {"ranked"}) :
       \E r \in {fetchTop1000RankingData(resp)} :
           /\ rankingResp' = resp
           /\ IF r.err # Nil
              THEN /\ Fail("Error fetching top 1000 ranking data: ", r.err)
                   /\ UNCHANGED top1000Data
              ELSE /\ top1000Data' = r.data
                   /\ Goto("Responding")
                   /\ UNCHANGED <<w, err>>
  /\ UNCHANGED <<call, method, calls, catalogResp, seasonList, clock,
                 latestSeasonData>>

ErrWrite == <<"write: broken pipe">>

\* lines 170-175: the response is encoded and written in one Write
Respond ==
  /\ pc = "Responding"
  /\ w' = Write(w, JsonPart([season_data |-> latestSeasonData,
                             top_1000 |-> top1000Data]))
  /\ Goto("Done")
  /\ UNCHANGED <<call, method, calls, catalogResp, seasonList, clock,
                 latestSeasonData, rankingResp, top1000Data, err>>

\* lines 175-178: the Write of the encoded response fails; the values
\* encoded (strings, ints and finite floats) never fail to marshal
RespondFails ==
  /\ pc = "Responding"
  /\ \E written \in {<<>>, <<JsonPrefixPart>>} :
       w' = httpErrorAfterFailure(FailedWrite(w, written),
                                  <<"Failed to encode response: ">> \o ErrWrite,
                                  StatusInternalServerError)
  /\ err' = [stage |-> pc, msg |-> ErrWrite]
  /\ Goto("Failed")
  /\ UNCHANGED <<call, method, calls, catalogResp, seasonList, clock,
                 latestSeasonData, rankingResp, top1000Data>>

Next ==
  \/ Enter
  \/ CatalogReturns
  \/ SelectSeason
  \/ RankingReturns
  \/ Respond
  \/ RespondFails

Spec == Init /\ [][Next]_vars

(***************************************************************************)
(* getLatestSeasonData on its own, on any catalog and clock.               *)
(***************************************************************************)
SelectInit ==
  /\ HandlerIdle /\ method = "GET"
  /\ \E c \in Catalogs, n \in Nows :
      call = [op |-> "getLatestSeasonData", at |-> "entry", seasons |-> c,
              now |-> n, order |-> <<>>,
              out |-> [data |-> ZeroSeason, err |-> Nil, seasons |-> c]]

CallGetLatestSeasonData ==
  /\ call.op = "getLatestSeasonData" /\ call.at = "entry"
  /\ \E o \in IterOrders(call.seasons) :
       call' = [call EXCEPT !.at = "returned", !.order = o,
                            !.out = getLatestSeasonData(call.seasons, call.now, o)]
  /\ UNCHANGED handlerVars

SelectNext == CallGetLatestSeasonData

SpecSelect == SelectInit /\ [][SelectNext]_vars

(***************************************************************************)
(* fetchTop1000RankingData on its own, on any answer of the endpoint.      *)
(***************************************************************************)
RankingInit ==
  /\ HandlerIdle /\ method = "GET"
  /\ \E resp \in RankingFailures \cup RankingArrays(RowCounts, RowKinds),
        sd \in SeasonPool :
       call = [op |-> "fetchTop1000RankingData", at |-> "entry",
               url |-> rankingURL(sd.cId, sd.rst, ToString(sd.ts1)),
               resp |-> resp, out |-> [data |-> <<>>, err |-> Nil]]

CallFetchTop1000RankingData ==
  /\ call.op = "fetchTop1000RankingData" /\ call.at = "entry"
  /\ call' = [call EXCEPT !.at = "returned",
                          !.out = fetchTop1000RankingData(call.resp)]
  /\ UNCHANGED handlerVars

RankingNext == CallFetchTop1000RankingData

SpecRanking == RankingInit /\ [][RankingNext]_vars

(***************************************************************************)
(* The parsing step on its own: the value is normalised, then parsed.      *)
(***************************************************************************)
ParseInit ==
  /\ HandlerIdle /\ method = "GET"
  /\ \/ \E c \in DateTimes, v \in Spellings :
       call = [op |-> "parse", at |-> "entry", date |-> c, spelling |-> v,
               raw |-> SpellOf(c, v), value |-> <<>>, out |-> ParseFailed]
     \/ \E s \in Malformed :
       call = [op |-> "parse", at |-> "entry", date |-> NoDate,
               spelling |-> NoSpelling, raw |-> s, value |-> <<>>,
               out |-> ParseFailed]

NormaliseStep ==
  /\ call.op = "parse" /\ call.at = "entry"
  /\ call' = [call EXCEPT !.at = "normalised", !.value = Normalise(call.raw)]
  /\ UNCHANGED handlerVars

ParseStep ==
  /\ call.op = "parse" /\ call.at = "normalised"
  /\ call' = [call EXCEPT !.at = "parsed", !.out = timeParse(call.value)]
  /\ UNCHANGED handlerVars

ParseNext == NormaliseStep \/ ParseStep

SpecParse == ParseInit /\ [][ParseNext]_vars

(***************************************************************************)
(* Properties of the parsing step (SpecParse).                             *)
(***************************************************************************)
Parsed == call.op = "parse" /\ call.at = "parsed"

InstantOf(c) == UnixOf(2024, 1, c.d, c.h, c.mi, 0)

\* C9 as stated: every spelling of a valid date and time, with slashes or
\* dashes, with or without a seconds field, parses to the instant it
\* denotes, the same as every other spelling of it; the seconds field is
\* appended only when absent; any other string fails.
C9_EverySpellingParsesAlike ==
  Parsed =>
    IF call.date \in DateTimes
    THEN /\ call.out = [ok |-> TRUE, unix |-> InstantOf(call.date)]
         /\ \A v \in Spellings :
              ParseWindowTime(SpellOf(call.date, v)) = call.out
         /\ call.spelling.withSec => call.value = ReplaceSlashes(call.raw)
    ELSE ~call.out.ok

\* C9 amended: the seconds field ":00" is always appended.  The spellings
\* without a seconds field, with slashes or with dashes, parse to the
\* instant they denote, the same for both separators; a spelling that
\* already has a seconds field fails, as does any other string.
C9_SpellingsWithoutSecondsParseAlike ==
  /\ (call.op = "parse" /\ call.at # "entry") =>
       /\ Len(call.value) = Len(call.raw) + 3
       /\ SubSeq(call.value, Len(call.raw) + 1, Len(call.raw) + 3)
            = <<":", "0", "0">>
       /\ \A i \in 1..Len(call.raw) : call.value[i] # "/"
  /\ Parsed =>
       IF call.date \in DateTimes /\ ~call.spelling.withSec
       THEN /\ call.out = [ok |-> TRUE, unix |-> InstantOf(call.date)]
            /\ \A sep \in Separators :
                 ParseWindowTime(SpellOf(call.date,
                                         [sep |-> sep, withSec |-> FALSE]))
                   = call.out
       ELSE ~call.out.ok

C9_Witness ==
  /\ Parsed /\ call.date \in DateTimes /\ call.date.h = 23
  /\ call.spelling = [sep |-> "/", withSec |-> FALSE]
  /\ call.out.ok

(***************************************************************************)
(* Properties of getLatestSeasonData on its own (SpecSelect).              *)
(***************************************************************************)
Returned == call.op = "getLatestSeasonData" /\ call.at = "returned"

SeasonAt(seasons, p) == seasons[p[1]][p[2]]

Parses(sd) == ParseWindowTime(sd.start).ok /\ ParseWindowTime(sd.end).ok

\* the records whose window strictly contains now
Containing(seasons, now) ==
  { p \in Paths(seasons) :
      /\ Parses(SeasonAt(seasons, p))
      /\ ParseWindowTime(SeasonAt(seasons, p).start).unix < now
      /\ now < ParseWindowTime(SeasonAt(seasons, p).end).unix }

\* the same record but for its start and end strings
SameButTimes(a, b) ==
  [a EXCEPT !.start = <<>>, !.end = <<>>] = [b EXCEPT !.start = <<>>, !.end = <<>>]

ReturnsOnlyContaining ==
  call.out.err = Nil =>
    \E p \in Containing(call.seasons, call.now) :
      SameButTimes(call.out.data, SeasonAt(call.seasons, p))

\* C4 as stated: a record is returned only if its window strictly contains
\* now, and when no record's window does, the result is the 'no season
\* data available' error.
C4_StrictWindowElseNoSeason ==
  Returned =>
    /\ ReturnsOnlyContaining
    /\ Containing(call.seasons, call.now) = {} => call.out.err = ErrNoSeason

\* C4 amended: a record is returned only if its window strictly contains
\* now; when no record's window does, the result is an error: 'no season
\* data available' if every record's start and end parse, a parse error
\* if some record's do not.
C4_StrictWindowElseError ==
  Returned =>
    /\ ReturnsOnlyContaining
    /\ Containing(call.seasons, call.now) = {} =>
         IF \A p \in Paths(call.seasons) : Parses(SeasonAt(call.seasons, p))
         THEN call.out.err = ErrNoSeason
         ELSE call.out.err \in {ErrParseStart, ErrParseEnd}

\* a record starts at now, another ends at now, and nothing is returned
C4_Witness ==
  /\ Returned
  /\ \E p, q \in Paths(call.seasons) :
       /\ Parses(SeasonAt(call.seasons, p)) /\ Parses(SeasonAt(call.seasons, q))
       /\ ParseWindowTime(SeasonAt(call.seasons, p).start).unix = call.now
       /\ ParseWindowTime(SeasonAt(call.seasons, q).end).unix = call.now
  /\ call.out.err = ErrNoSeason

Outcome(r) == <<r.data, r.err>>

SameForEveryOrder ==
  \A o \in IterOrders(call.seasons) :
    Outcome(getLatestSeasonData(call.seasons, call.now, o)) = Outcome(call.out)

\* C5 as stated: for every catalog and clock the outcome is the same for
\* every iteration order of the two map levels.
C5_SameOutcomeForEveryOrder == Returned => SameForEveryOrder

\* C5 amended: for every catalog whose records all parse and in which at
\* most one record's window contains now, and every clock, the outcome is
\* the same for every iteration order of the two map levels.
C5_SameOutcomeWhenAtMostOneWindow ==
  ( /\ Returned
    /\ \A p \in Paths(call.seasons) : Parses(SeasonAt(call.seasons, p))
    /\ Cardinality(Containing(call.seasons, call.now)) <= 1 )
  => SameForEveryOrder

\* two records in one group, one of them active, and it is returned
C5_Witness ==
  /\ Returned
  /\ \E g \in DOMAIN call.seasons : Cardinality(DOMAIN call.seasons[g]) = 2
  /\ \A p \in Paths(call.seasons) : Parses(SeasonAt(call.seasons, p))
  /\ Cardinality(Containing(call.seasons, call.now)) = 1
  /\ call.out.err = Nil

(***************************************************************************)
(* Properties of fetchTop1000RankingData on its own (SpecRanking).         *)
(***************************************************************************)
\* C6: on a 200 answer decoding to n rows the call fails with the short
\* ranking error when n < 1000 and succeeds when n >= 1000; the result
\* then has n entries, the i-th made from the i-th row: rank, name and
\* language the row's, the icon the base path followed by the row's icon,
\* the rating the row's rating divided by 1000.
C6_ThresholdAndRowByRowConversion ==
  ( /\ call.op = "fetchTop1000RankingData" /\ call.at = "returned"
    /\ call.resp.kind = "decoded" )
  =>
    IF call.resp.n < 1000
    THEN call.out.err = ErrShortRanking /\ call.out.data = <<>>
    ELSE /\ call.out.err = Nil
         /\ Len(call.out.data) = call.resp.n
         /\ \A i \in 1..call.resp.n :
              LET row == UpstreamRows[call.resp.gen][i]
                  entry == call.out.data[i]
              IN  /\ entry.rank = row.rank
                  /\ entry.name = row.name
                  /\ entry.lng = row.lng
                  /\ entry.icon = IconBase \o row.icon
                  /\ entry.rating_value * 1000 = row.rating_value

\* exactly 1000 rows, each with its own rank and name, are converted
C6_Witness ==
  /\ call.op = "fetchTop1000RankingData" /\ call.at = "returned"
  /\ call.resp.kind = "decoded" /\ call.resp.n = 1000
  /\ call.resp.gen = "ranked"
  /\ call.out.err = Nil
  /\ call.out.data[1000].rank = 1000

(***************************************************************************)
(* Properties of RankingHandler (Spec).                                    *)
(***************************************************************************)
\* C1: a request whose method is not GET is answered 405 and starts no
\* upstream call, neither the catalog POST nor the ranking GET.
C1_NonGetAnswered405WithoutUpstreamCall ==
  (method # "GET" /\ pc # "Idle") =>
    /\ pc = "Rejected"
    /\ w.status = 405
    /\ calls.catalog = 0 /\ calls.ranking = 0

C1_Witness ==
  method = "HEAD" /\ pc = "Rejected" /\ w.status = 405 /\ Len(w.body) = 1

Responded == w.status # 0

\* C2 as stated: every response, whatever its status, carries
\* Access-Control-Allow-Origin: * and Content-Type: application/json.
C2_EveryResponseCorsAndJson ==
  Responded =>
    /\ HeaderGet(w.sent, "Access-Control-Allow-Origin") = "*"
    /\ HeaderGet(w.sent, "Content-Type") = "application/json"

\* C2 amended: every response carries Access-Control-Allow-Origin: *; a
\* 200 response carries Content-Type: application/json, and a 405 or 500
\* response, which http.Error writes, carries the Content-Type
\* text/plain; charset=utf-8 that http.Error sets in place of it.
C2_CorsAlwaysJsonOnlyOn200 ==
  Responded =>
    /\ w.status \in {200, 405, 500}
    /\ HeaderGet(w.sent, "Access-Control-Allow-Origin") = "*"
    /\ w.status = 200 => HeaderGet(w.sent, "Content-Type") = "application/json"
    /\ w.status \in {405, 500} =>
         HeaderGet(w.sent, "Content-Type") = "text/plain; charset=utf-8"

C2_Witness ==
  /\ pc = "Failed" /\ w.status = 500
  /\ HeaderGet(w.sent, "Access-Control-Allow-Origin") = "*"
  /\ HeaderGet(w.sent, "Content-Type") = "text/plain; charset=utf-8"

StageRank(state) ==
  CASE state = "Idle" -> 0
    [] state = "FetchingCatalog" -> 1
    [] state = "SelectingSeason" -> 2
    [] state = "FetchingRanking" -> 3
    [] state = "Responding" -> 4
    [] OTHER -> 5

Contains(text, chunk) == \E i \in 1..Len(text) : text[i] = chunk

\* C3: a GET request moves only forward through the stages; a failure at
\* any stage ends it in Failed with a 500 response whose body is the
\* message with the cause (the status code for a non-200 catalog) and no
\* part of a success body, no later stage is started, and each upstream
\* call is made at most once.
C3_FailureEndsIn500WithCause ==
  /\ \A i, j \in 1..Len(trace) :
       i < j => StageRank(trace[i]) < StageRank(trace[j])
  /\ calls.catalog <= 1 /\ calls.ranking <= 1
  /\ pc = "FetchingCatalog" => calls.ranking = 0
  /\ pc = "Failed" =>
       /\ trace[Len(trace) - 1] = err.stage
       /\ w.status = 500
       /\ Len(w.body) = 1 /\ w.body[1].kind = "text"
       /\ \A i \in 1..Len(err.msg) : Contains(w.body[1].text, err.msg[i])
       /\ err.stage \in {"FetchingCatalog", "SelectingSeason"} => calls.ranking = 0
       /\ (err.stage = "FetchingCatalog" /\ catalogResp.kind = "status") =>
            Contains(w.body[1].text, ToString(catalogResp.code))

\* C7: the top entries of a 200 response are at most 1000, for every
\* length of the array the ranking endpoint returns.
C7_AtMost1000Entries ==
  (w.status = 200 /\ \E i \in 1..Len(w.body) : w.body[i].kind = "json") =>
    \A i \in 1..Len(w.body) :
      w.body[i].kind = "json" => Len(w.body[i].value.top_1000) <= 1000

SeasonsOf(seasons) == {SeasonAt(seasons, p) : p \in Paths(seasons)}

\* the record as getLatestSeasonData's loop copy holds it at line 205
NormalisedCopy(sd) ==
  [sd EXCEPT !.start = ReplaceSlashes(sd.start) \o <<":", "0", "0">>,
             !.end = ReplaceSlashes(sd.end) \o <<":", "0", "0">>]

CatalogKept ==
  (catalogResp.kind = "decoded" /\ pc \notin {"FetchingCatalog"} /\ err.stage # "FetchingCatalog")
    => seasonList = catalogResp.list

Selected == calls.ranking = 1

Emitted == pc = "Done" /\ Len(w.body) = 1 /\ w.body[1].kind = "json"

\* C8 as stated: the record the selector returns and the handler emits
\* equals, field by field, a record of the catalog as decoded, start and
\* end strings included; and the catalog is left unchanged by the
\* validation loop and by the selector.
C8_EmittedSeasonIsCatalogRecord ==
  /\ CatalogKept
  /\ Selected => latestSeasonData \in SeasonsOf(catalogResp.list)
  /\ Emitted => w.body[1].value.season_data \in SeasonsOf(catalogResp.list)

\* C8 amended: the catalog is left unchanged by the validation loop and by
\* the selector; the record the selector returns and the handler emits
\* equals a record of the catalog in every field but start and end, which
\* hold the normalised strings: slashes replaced by dashes, ":00" appended.
C8_EmittedSeasonIsNormalisedCopy ==
  /\ CatalogKept
  /\ Selected =>
       latestSeasonData \in {NormalisedCopy(sd) : sd \in SeasonsOf(catalogResp.list)}
  /\ Emitted =>
       w.body[1].value.season_data
         \in {NormalisedCopy(sd) : sd \in SeasonsOf(catalogResp.list)}

C8_Witness ==
  /\ Emitted /\ w.status = 200
  /\ seasonList = catalogResp.list
  /\ Cardinality(Paths(seasonList)) = 2
  /\ w.body[1].value.season_data.start # <<>>

HasUnparsable(seasons) == \E sd \in SeasonsOf(seasons) : ~Parses(sd)

\* C10: (1) a catalog holding a record with an unparsable start or end
\* fails the request with a 500 at the catalog stage, for every iteration
\* order, whatever its other records; (2) when the handler reaches
\* getLatestSeasonData, the call's only failure is 'no season data
\* available'.
C10_CatalogValidatedBeforeSelection ==
  /\ (catalogResp.kind = "decoded" /\ HasUnparsable(catalogResp.list)) =>
       /\ pc = "Failed" /\ err.stage = "FetchingCatalog"
       /\ err.msg \in {ErrParseStart, ErrParseEnd}
       /\ w.status = 500
       /\ calls.ranking = 0
  /\ pc \in {"SelectingSeason", "FetchingRanking", "Responding", "Done"} =>
       ~HasUnparsable(seasonList)
  /\ err.stage = "SelectingSeason" => err.msg = ErrNoSeason

\* a catalog with an unparsable record and a record that is active at the
\* first noon fails at the catalog stage
C10_Witness ==
  /\ pc = "Failed" /\ err.stage = "FetchingCatalog"
  /\ catalogResp.kind = "decoded"
  /\ HasUnparsable(catalogResp.list)
  /\ Containing(catalogResp.list, UnixOf(2024, 1, 1, 12, 0, 0)) # {}

====
